---- MODULE Spec2Model ----
(***************************************************************************)
(* Model of the DecisionTwin agents: extractor.extract_info /              *)
(* mock_extraction, persona_builder.generate_personas,                     *)
(* debater.simulate_debate, summarizer.summarize_and_analyze and the       *)
(* step handlers of app.py that chain them.                                *)
(*                                                                         *)
(* Texts are modelled by their structure: process_hint is a list of        *)
(* numbered lines "i. name: role", a dilemma is the set of keywords it     *)
(* mentions and the list of its numbered lines, a JSON object is a record  *)
(* with the set of keys it carries.                                        *)
(***************************************************************************)
EXTENDS Integers, Sequences, FiniteSets, TLC

VARIABLES
    gw,                 \* behaviour of the Gateway in this run: "any", "down", "faithful"
    dilemma,            \* user input: keywords mentioned and numbered lines
    process_hint,       \* user input: sequence of numbered lines [name, role]
    ex_pc,              \* extract_info: "idle", "start", "returned"
    ex_reply,           \* what the Gateway answered to extract_info
    ex_path,            \* which return statement of extract_info was taken
    extracted,          \* the decision structure (session_state.extracted)
    gp_pc,              \* generate_personas: "idle", "start", "loop", "returned"
    gp_stakeholders,    \* generate_personas: the stakeholder list read at line 23
    gp_log,             \* generate_personas: Gateway outcome of each iteration
    rng,                \* state of the random module
    personas,           \* list of personas (built by generate_personas)
    rounds,             \* simulate_debate argument
    max_simulation_time,\* simulate_debate argument
    pc,                 \* simulate_debate: program location
    alarm,              \* process-wide SIGALRM timer: "off", "armed"
    exc,                \* exception in flight / raised to the caller
    transcript,         \* simulate_debate local
    process_steps,      \* simulate_debate local
    stakeholder_roles,  \* simulate_debate local (function from names to roles)
    filtered_personas,  \* simulate_debate local
    cumulative_context, \* simulate_debate local (sequence of lines)
    round_num,          \* simulate_debate local, -1 while unbound
    current_step,       \* simulate_debate local, Unbound while unbound
    round_transcript,   \* simulate_debate local
    p_idx,              \* simulate_debate: index of the persona being prompted
    calls,              \* history: every Gateway call made by simulate_debate
    replies,            \* history: the kind of every answer simulate_debate received
    fired_at,           \* history: program location at which SIGALRM was delivered
    result,             \* value returned by simulate_debate (when pc = "returned")
    step,               \* app.py session_state.step (0 outside the app)
    summary,            \* result of summarize_and_analyze, NoSummary before
    summary_calls,      \* history: the kind of every answer summarize_and_analyze received
    error               \* app.py: the message of st.error, "" when none

vars == <<gw, dilemma, process_hint, ex_pc, ex_reply, ex_path, extracted,
          gp_pc, gp_stakeholders, gp_log, rng, personas,
          rounds, max_simulation_time, pc, alarm, exc, transcript,
          process_steps, stakeholder_roles, filtered_personas,
          cumulative_context, round_num, current_step, round_transcript,
          p_idx, calls, replies, fired_at, result, step, summary, summary_calls,
          error>>

inputVars   == <<gw, dilemma, process_hint>>
appVars     == <<step, summary, summary_calls, error>>
extractVars == <<ex_pc, ex_reply, ex_path>>
personaVars == <<gp_pc, gp_stakeholders, gp_log, rng>>
debateVars  == <<pc, alarm, exc, transcript, process_steps, stakeholder_roles,
                 filtered_personas, cumulative_context, round_num, current_step,
                 round_transcript, p_idx, calls, replies, fired_at, result>>

-----------------------------------------------------------------------------
(* Bounds of the model *)
MaxHintLines == 3
MaxStakeholdersIn == 3
MaxPersonas == 2
MaxRounds == 2
\* lines of the cumulative context that fit into a prompt (the model's scale of
\* the 1000 characters of debater.py line 132)
MaxContextTail == 4

(* config.py *)
MAX_RETRIES == 3
MAX_STAKEHOLDERS == 10
MIN_STAKEHOLDERS == 3
DEBATE_ROUNDS == 3

DECISION_TYPES ==
    {"Budget Allocation", "Foreign Policy", "Corporate Strategy",
     "Humanitarian Response", "Regulatory Compliance",
     "Operational Efficiency", "Other"}

STAKEHOLDER_ANALYSIS ==
    [psychological_traits |->
        <<"Risk-Averse", "Risk-Tolerant", "Collaborative", "Authoritative",
          "Empathetic", "Analytical", "Impulsive">>,
     influences |->
        <<"Political Pressure", "Financial Incentives", "Public Opinion",
          "Regulatory Constraints", "Strategic Alliances", "Personal Ambition">>,
     biases |->
        <<"Confirmation Bias", "Status Quo Bias", "Optimism Bias",
          "Cost-Avoidance Bias", "Groupthink">>,
     historical_behavior |->
        <<"Conservative Decision-Making", "Innovative Initiatives",
          "Compliance-Driven", "Aggressive Expansion", "Consensus-Building">>]

-----------------------------------------------------------------------------
(* Generic helpers *)

Missing == "<missing>"          \* a key the dict does not carry
Unbound == "<unbound>"          \* a local variable not yet assigned

Range(s) == {s[i] : i \in 1..Len(s)}

SeqsUpTo(S, n) == UNION {[1..k -> S] : k \in 0..n}

Min(a, b) == IF a < b THEN a ELSE b
Max(a, b) == IF a > b THEN a ELSE b

\* s[:n] of Python, n >= 0
Take(s, n) == SubSeq(s, 1, Min(n, Len(s)))

\* seq[i % len(seq)] of Python (0-based index into a 1-based sequence)
AtMod(s, i) == s[(i % Len(s)) + 1]

-----------------------------------------------------------------------------
(* User inputs *)

Names == {"Ann", "Bob"}

\* The lines a process_hint is made of: "i. <name>: <role>"
HintLineValues ==
    {[name |-> "Ann", role |-> "Manager"],
     [name |-> "Bob", role |-> "USAID Liaison"],
     [name |-> "Ann", role |-> "Analyst"]}

\* LongHint(n): n numbered lines, to reach past MAX_STAKEHOLDERS
LongHint(n) ==
    [i \in 1..n |-> IF i % 2 = 1 THEN [name |-> "Ann", role |-> "Manager"]
                                 ELSE [name |-> "Bob", role |-> "USAID Liaison"]]

Hints == SeqsUpTo(HintLineValues, MaxHintLines) \cup {LongHint(MAX_STAKEHOLDERS + 1)}

\* the substrings of a role text that the code tests for
RoleMentions(role) ==
    CASE role = "USAID Liaison" -> {"USAID"}
      [] OTHER -> {}

\* `name in process_hint` (substring test) for the names of the model
NameInHint(name, hint) == \E i \in 1..Len(hint) : hint[i].name = name

\* a dilemma: the substrings mock_extraction tests for, and the names of its
\* numbered lines "i. challenge: ..."
Dilemma(m, c) == [mentions |-> m, challenges |-> c]

NoDilemma == Dilemma({}, <<>>)

Challenges ==
    <<"Budget cuts", "Staff safety", "Supply routes", "Donor trust",
      "Media coverage", "Legal exposure">>

Dilemmas ==
    {Dilemma(m, <<>>) : m \in {{}, {"State Department"}, {"Indo-Pacific"}}}
    \cup {Dilemma({}, Take(Challenges, n)) : n \in {1, Len(Challenges)}}

-----------------------------------------------------------------------------
(* extractor.py *)

Stakeholder(n, t, i, b, h) ==
    [name |-> n, psychological_traits |-> t, influences |-> i, biases |-> b,
     historical_behavior |-> h, bio |-> Missing, tone |-> Missing]

\* the stakeholders mock_extraction substitutes for a State Department /
\* Indo-Pacific dilemma
FixedStakeholders ==
    << Stakeholder("Elizabeth Carter", "Analytical", "Strategic Alliances",
                   "Confirmation Bias", "Consensus-Building"),
       Stakeholder("Michael Nguyen", "Empathetic", "Public Opinion",
                   "Optimism Bias", "Innovative Initiatives"),
       Stakeholder("Laura Thompson", "Authoritative", "Political Pressure",
                   "Groupthink", "Conservative Decision-Making"),
       Stakeholder("Priya Sharma", "Risk-Tolerant", "Financial Incentives",
                   "Status Quo Bias", "Aggressive Expansion"),
       Stakeholder("James Sullivan", "Collaborative", "Regulatory Constraints",
                   "Cost-Avoidance Bias", "Compliance-Driven"),
       Stakeholder("Rebecca Ortiz", "Risk-Averse", "Personal Ambition",
                   "Confirmation Bias", "Conservative Decision-Making"),
       Stakeholder("Robert Kline", "Authoritative", "Political Pressure",
                   "Groupthink", "Compliance-Driven") >>

FixedIssues ==
    <<"Humanitarian crisis in Country A", "Security threats in Country B",
      "Economic instability in Country C", "Political viability">>

FixedProcess ==
    <<"Situation Assessment", "Options Development", "Interagency Coordination",
      "Task Force Deliberation", "Recommendation and Approval">>

\* one iteration of the loop over matches[:MAX_STAKEHOLDERS], i counted from 1
MockStakeholder(line, i) ==
    LET description == line.role
        traits == IF "strategy" \in RoleMentions(description) THEN "Analytical"
                  ELSE IF "humanitarian" \in RoleMentions(description) THEN "Empathetic"
                  ELSE AtMod(STAKEHOLDER_ANALYSIS.psychological_traits, i)
    IN  Stakeholder(line.name, traits,
                    AtMod(STAKEHOLDER_ANALYSIS.influences, i),
                    AtMod(STAKEHOLDER_ANALYSIS.biases, i),
                    AtMod(STAKEHOLDER_ANALYSIS.historical_behavior, i))

\* a variant of mock_extraction that returns one hardcoded structure: four
\* generic stakeholders, two generic issues and three generic steps
mock_extraction_Fixed(d, hint) ==
    [decision_type |-> "Other",
     stakeholders |-> [i \in 1..4 |->
                         Stakeholder(<<"Stakeholder 1", "Stakeholder 2",
                                       "Stakeholder 3", "Stakeholder 4">>[i],
                                     "Analytical",
                                     "Public Opinion", "Groupthink",
                                     "Consensus-Building")],
     issues |-> <<"Issue 1", "Issue 2">>,
     process |-> <<"Step 1", "Step 2", "Step 3">>]

\* lines 41-86: the stakeholders and the steps are read from the numbered lines
\* of process_hint and the issues from those of the dilemma, with placeholders
\* for missing issues and steps; a dilemma that mentions "State Department" or
\* "Indo-Pacific" gets a hardcoded structure instead
mock_extraction(d, hint) ==
    LET matches == Take(hint, MAX_STAKEHOLDERS)
        parsed == [i \in 1..Len(matches) |-> MockStakeholder(matches[i], i)]
        issues == IF d.challenges = <<>>
                  THEN <<"Unknown issue 1", "Unknown issue 2", "Unknown issue 3">>
                  ELSE d.challenges
        steps == [i \in 1..Len(hint) |-> hint[i].name]
        process == IF steps = <<>>
                   THEN <<"Unknown step 1", "Unknown step 2", "Unknown step 3">>
                   ELSE steps
        fixed == "State Department" \in d.mentions \/ "Indo-Pacific" \in d.mentions
    IN  [decision_type |-> IF "State Department" \in d.mentions THEN "Foreign Policy" ELSE "Other",
         stakeholders |-> IF fixed THEN FixedStakeholders ELSE parsed,
         issues |-> Take(IF fixed THEN FixedIssues ELSE issues, 5),
         process |-> IF fixed THEN FixedProcess ELSE process]

\* dict.get(key, default) on a JSON object
Get(obj, key, default) == IF key \in obj.keys THEN obj[key] ELSE default

OrDefault(v, default) == IF v = Missing THEN default ELSE v

\* lines 160-163: fill the required fields of one Gateway stakeholder
Validated(s) ==
    [s EXCEPT !.name = OrDefault(s.name, "Unknown"),
              !.psychological_traits =
                  OrDefault(s.psychological_traits, STAKEHOLDER_ANALYSIS.psychological_traits[1]),
              !.influences = OrDefault(s.influences, STAKEHOLDER_ANALYSIS.influences[1]),
              !.biases = OrDefault(s.biases, STAKEHOLDER_ANALYSIS.biases[1]),
              !.historical_behavior =
                  OrDefault(s.historical_behavior, STAKEHOLDER_ANALYSIS.historical_behavior[1])]

\* a variant of line 164 that lets every name pass
NameRejected_Never(s, hint) == FALSE

\* lines 164: a validated name the process_hint does not contain
NameRejected(s, hint) == s.name # "Unknown" /\ ~NameInHint(s.name, hint)

\* a variant of extract_info whose result is one fixed structure, whatever the
\* inputs and the Gateway's answer
extract_info_FixedFallback(d, hint, reply) ==
    [path |-> "except", structure |-> mock_extraction(NoDilemma, <<>>)]

\* a variant of extract_info in which result.get(...) on JSON that is no
\* object is not covered by the try block: the AttributeError leaves the call
extract_info_Unguarded(d, hint, reply) ==
    IF reply.kind = "nondict"
    THEN [path |-> "raised", structure |-> mock_extraction(NoDilemma, <<>>)]
    ELSE [path |-> "except", structure |-> mock_extraction(d, hint)]

\* a variant of extract_info whose defaults for absent issues and process are
\* two generic issues and three generic steps
extract_info_GenericDefaults(d, hint, reply) ==
    IF reply.kind # "json"
    THEN [path |-> "except", structure |-> mock_extraction(d, hint)]
    ELSE
      LET obj == reply.obj
          dt0 == Get(obj, "decision_type", "Other")
          dt  == IF dt0 \in DECISION_TYPES THEN dt0 ELSE "Other"
          sts == Get(obj, "stakeholders", <<>>)
          val == [i \in 1..Len(sts) |-> Validated(sts[i])]
      IN  IF ~(MIN_STAKEHOLDERS <= Len(sts) /\ Len(sts) <= MAX_STAKEHOLDERS)
          THEN [path |-> "count", structure |-> mock_extraction(d, hint)]
          ELSE IF \E i \in 1..Len(val) : NameRejected(val[i], hint)
          THEN [path |-> "name", structure |-> mock_extraction(d, hint)]
          ELSE [path |-> "gateway",
                structure |->
                  [decision_type |-> dt,
                   stakeholders |-> val,
                   issues |-> Get(obj, "issues", <<"Issue 1", "Issue 2">>),
                   process |-> Get(obj, "process", <<"Step 1", "Step 2", "Step 3">>)]]

\* extract_info: the structure returned and the return statement that gave it
\* ("gateway": line 171, "count": line 159, "name": line 166, "except": line 175)
extract_info(d, hint, reply) ==
    IF reply.kind # "json"
    THEN [path |-> "except", structure |-> mock_extraction(d, hint)]
    ELSE
      LET obj == reply.obj
          dt0 == Get(obj, "decision_type", "Other")
          dt  == IF dt0 \in DECISION_TYPES THEN dt0 ELSE "Other"
          sts == Get(obj, "stakeholders", <<>>)
          val == [i \in 1..Len(sts) |-> Validated(sts[i])]
      IN  IF ~(MIN_STAKEHOLDERS <= Len(sts) /\ Len(sts) <= MAX_STAKEHOLDERS)
          THEN [path |-> "count", structure |-> mock_extraction(d, hint)]
          ELSE IF \E i \in 1..Len(val) : NameRejected(val[i], hint)
          THEN [path |-> "name", structure |-> mock_extraction(d, hint)]
          ELSE [path |-> "gateway",
                structure |->
                  [decision_type |-> dt,
                   stakeholders |-> val,
                   issues |-> Get(obj, "issues", <<"Unknown issue">>),
                   process |-> Get(obj, "process", <<"Unknown step">>)]]

(* The Gateway's answers to extract_info *)

GwStakeholder(n) ==
    [name |-> n, psychological_traits |-> Missing, influences |-> Missing,
     biases |-> Missing, historical_behavior |-> Missing,
     bio |-> Missing, tone |-> Missing]

\* names the Gateway may give: one of the hint, one foreign to it, none
GwNames == {"Ann", "Zed", Missing}

GwStakeholderLists ==
    {[i \in 1..Len(f) |-> GwStakeholder(f[i])] :
        f \in SeqsUpTo(GwNames, MIN_STAKEHOLDERS)}
    \cup {[i \in 1..n |-> GwStakeholder("Ann")] :
            n \in {MAX_STAKEHOLDERS, MAX_STAKEHOLDERS + 1}}

Present(v) == [has |-> TRUE, val |-> v]
Absent(v)  == [has |-> FALSE, val |-> v]

JsonObject(dt, st, is, pr) ==
    [keys |-> {k \in {"decision_type", "stakeholders", "issues", "process"} :
                 \/ k = "decision_type" /\ dt.has
                 \/ k = "stakeholders" /\ st.has
                 \/ k = "issues" /\ is.has
                 \/ k = "process" /\ pr.has},
     decision_type |-> dt.val, stakeholders |-> st.val,
     issues |-> is.val, process |-> pr.val]

GwObjects ==
    {JsonObject(dt, st, is, pr) :
        dt \in {Absent(""), Present("Foreign Policy"), Present("Bogus")},
        st \in {Absent(<<>>)} \cup {Present(l) : l \in GwStakeholderLists},
        is \in {Absent(<<>>), Present(<<"Budget gap">>)},
        pr \in {Absent(<<>>), Present(<<>>), Present(<<"Situation Assessment">>)}}

NoObject == JsonObject(Absent(""), Absent(<<>>), Absent(<<>>), Absent(<<>>))

\* a Gateway that follows the prompt: the hint's names, a valid type, lists
FaithfulObject(hint) ==
    JsonObject(Present("Foreign Policy"),
               Present([i \in 1..Len(hint) |-> GwStakeholder(hint[i].name)]),
               Present(<<"Budget gap", "Staffing", "Public trust">>),
               Present(<<"Situation Assessment", "Options Development">>))

\* "error": the call raises; "empty": no content; "text": content that is no
\* JSON; "nondict": JSON that is no object; "json": a JSON object
ExtractReplies(mode, hint) ==
    CASE mode = "down" -> {[kind |-> "error", obj |-> NoObject]}
      [] mode = "faithful" -> {[kind |-> "json", obj |-> FaithfulObject(hint)]}
      [] OTHER -> {[kind |-> k, obj |-> NoObject] :
                     k \in {"error", "empty", "text", "nondict"}}
                  \cup {[kind |-> "json", obj |-> o] : o \in GwObjects}

NoStructure == [decision_type |-> "", stakeholders |-> <<>>, issues |-> <<>>, process |-> <<>>]
NoReply == [kind |-> "none", obj |-> NoObject]

\* One call of extract_info(dilemma, process_hint)
ExtractInfo ==
    /\ ex_pc = "start"
    /\ \E reply \in ExtractReplies(gw, process_hint) :
         LET r == extract_info(dilemma, process_hint, reply)
         IN  /\ ex_reply' = reply
             /\ ex_path' = r.path
             /\ extracted' = r.structure
    /\ ex_pc' = "returned"
    /\ UNCHANGED <<inputVars, personaVars, personas, rounds, max_simulation_time,
                   debateVars, appVars>>

-----------------------------------------------------------------------------
(* persona_builder.py *)

goals_options ==
    <<"maximize impact", "ensure stability", "promote growth", "maintain oversight",
      "enhance influence", "secure resources", "minimize risks">>

biases_options ==
    <<"confirmation bias", "optimism bias", "groupthink", "status quo bias",
      "cost-avoidance bias">>

tones == <<"diplomatic", "assertive", "empathetic", "analytical", "cautious">>

\* The random module is a stream fixed by its state: random.sample(options, 2)
\* and random.choice(options) read the stream at r and advance it.
Sample2(options, r) == <<AtMod(options, r), AtMod(options, r + 1)>>
Choice(options, r) == AtMod(options, r)

\* texts are sequences of their parts
GenericBio(name) == <<name, "has a long career in their field">>
TemplatedBehavior(name, tone) ==
    <<"During negotiations,", name, "will focus on their primary goals", tone>>

\* stakeholder_dict = {s["name"]: s for s in stakeholders}: the last
\* stakeholder of a name is the one the name maps to
stakeholder_dict(stakeholders, name) ==
    LET idx == {i \in 1..Len(stakeholders) : stakeholders[i].name = name}
    IN  stakeholders[CHOOSE i \in idx : \A j \in idx : j <= i]

\* What the Gateway answers to one profile request: "error" (the call raises),
\* "none" (no content), "plain" (text without a blank line), "split" (bio,
\* blank line, behaviour)
PersonaReplies(mode) ==
    CASE mode = "down" -> {"error"}
      [] mode = "faithful" -> {"split"}
      [] OTHER -> {"error", "none", "plain", "split"}

\* a variant of lines 52-114 whose templated behaviour names the first goal of
\* the persona
BuildPersona_GoalInBehavior(stakeholders, name, r, reply) ==
    LET extracted_data == stakeholder_dict(stakeholders, name)
        goals == Sample2(goals_options, r)
        biases == Sample2(biases_options, r + 1)
        tone == IF extracted_data.tone # Missing THEN extracted_data.tone
                ELSE Choice(tones, r + 2)
        initial_bio == IF extracted_data.bio # Missing THEN <<extracted_data.bio>>
                       ELSE GenericBio(name)
        bio == CASE reply = "split" -> <<"Gateway bio of", name>>
                 [] reply = "plain" -> <<"Gateway text on", name>>
                 [] OTHER -> initial_bio
        behavior == IF reply = "split" THEN <<"Gateway behavior of", name>>
                    ELSE <<"During negotiations,", name, "will focus on", goals[1], tone>>
    IN  [name |-> name, goals |-> goals, biases |-> biases, tone |-> tone,
         bio |-> bio, expected_behavior |-> behavior]

\* lines 52-114: the persona built for `name` with the random stream at r
BuildPersona(stakeholders, name, r, reply) ==
    LET extracted_data == stakeholder_dict(stakeholders, name)
        goals == Sample2(goals_options, r)
        biases == Sample2(biases_options, r + 1)
        tone == IF extracted_data.tone # Missing THEN extracted_data.tone
                ELSE Choice(tones, r + 2)
        initial_bio == IF extracted_data.bio # Missing THEN <<extracted_data.bio>>
                       ELSE GenericBio(name)
        bio == CASE reply = "split" -> <<"Gateway bio of", name>>
                 [] reply = "plain" -> <<"Gateway text on", name>>
                 [] OTHER -> initial_bio
        behavior == IF reply = "split" THEN <<"Gateway behavior of", name>>
                    ELSE TemplatedBehavior(name, tone)
    IN  [name |-> name, goals |-> goals, biases |-> biases, tone |-> tone,
         bio |-> bio, expected_behavior |-> behavior]

\* draws of one iteration: two samples, and a choice when no tone is extracted
Draws(stakeholders, name) ==
    IF stakeholder_dict(stakeholders, name).tone # Missing THEN 2 ELSE 3

\* state of the random stream after the first k iterations of the loop
RECURSIVE RngAfter(_, _, _)
RngAfter(stakeholders, r, k) ==
    IF k = 0 THEN r
    ELSE RngAfter(stakeholders, r, k - 1) + Draws(stakeholders, stakeholders[k].name)

\* lines 23-116 as a function: the list returned for `stakeholders` when the
\* random stream starts at r and the Gateway answers iteration i with
\* outcomes[i]
generate_personas(stakeholders, r, outcomes) ==
    [i \in 1..Len(stakeholders) |->
        BuildPersona(stakeholders, stakeholders[i].name,
                     RngAfter(stakeholders, r, i - 1), outcomes[i])]

\* what generate_personas leaves alone
personaFrame == <<inputVars, extractVars, extracted, rounds, max_simulation_time,
                  debateVars, appVars>>

\* lines 17-51: read the stakeholders; an empty list returns [] at once
GP_Start ==
    /\ gp_pc = "start"
    /\ gp_stakeholders' = extracted.stakeholders
    /\ personas' = <<>>
    /\ gp_log' = <<>>
    /\ gp_pc' = IF extracted.stakeholders = <<>> THEN "returned" ELSE "loop"
    /\ UNCHANGED rng
    /\ UNCHANGED personaFrame

\* a variant of the loop body in which a failed profile request ends the
\* function with the personas built so far
GP_Iteration_Abort ==
    /\ gp_pc = "loop"
    /\ Len(personas) < Len(gp_stakeholders)
    /\ LET name == gp_stakeholders[Len(personas) + 1].name
       IN  \E reply \in PersonaReplies(gw) :
             /\ gp_log' = Append(gp_log, reply)
             /\ rng' = rng + Draws(gp_stakeholders, name)
             /\ IF reply = "error"
                THEN /\ gp_pc' = "returned"
                     /\ UNCHANGED personas
                ELSE /\ personas' = Append(personas,
                                           BuildPersona(gp_stakeholders, name, rng, reply))
                     /\ UNCHANGED gp_pc
    /\ UNCHANGED gp_stakeholders
    /\ UNCHANGED personaFrame

\* lines 52-114: one iteration of `for name in names`
GP_Iteration ==
    /\ gp_pc = "loop"
    /\ Len(personas) < Len(gp_stakeholders)
    /\ LET name == gp_stakeholders[Len(personas) + 1].name
       IN  \E reply \in PersonaReplies(gw) :
             /\ personas' = Append(personas,
                                   BuildPersona(gp_stakeholders, name, rng, reply))
             /\ gp_log' = Append(gp_log, reply)
             /\ rng' = rng + Draws(gp_stakeholders, name)
    /\ UNCHANGED <<gp_pc, gp_stakeholders>>
    /\ UNCHANGED personaFrame

\* line 116
GP_Return ==
    /\ gp_pc = "loop"
    /\ Len(personas) = Len(gp_stakeholders)
    /\ gp_pc' = "returned"
    /\ UNCHANGED <<gp_stakeholders, gp_log, rng, personas>>
    /\ UNCHANGED personaFrame

-----------------------------------------------------------------------------
(* debater.py *)

\* what simulate_debate leaves alone (`extracted` apart, see Pad)
debateFrame == <<inputVars, extractVars, personaVars, personas, rounds,
                 max_simulation_time, appVars>>

Entry(a, r, s, m) == [agent |-> a, round |-> r, step |-> s, message |-> m]

\* lines of the cumulative context
ContextLine(k, r, a, t) == [kind |-> k, round |-> r, agent |-> a, text |-> t]

\* program locations inside the try statement (lines 99-161)
InTry == {"for", "persona", "call", "reraise", "round_end", "context_append"}
\* program locations between the arming of the alarm and the try statement
InSetUp == {"client", "pad", "roles", "context"}

\* lines 36-38: signal.alarm(t) arms the timer, and cancels it when t = 0
Arm ==
    /\ pc = "arm"
    /\ alarm' = IF max_simulation_time > 0 THEN "armed" ELSE "off"
    /\ pc' = "client"
    /\ UNCHANGED <<exc, transcript, process_steps, stakeholder_roles,
                   filtered_personas, cumulative_context, round_num, current_step,
                   round_transcript, p_idx, calls, replies, fired_at, result>>
    /\ UNCHANGED <<debateFrame, extracted>>

\* lines 40-43
Client ==
    /\ pc = "client"
    /\ pc' = "pad"
    /\ UNCHANGED <<alarm, exc, transcript, process_steps, stakeholder_roles,
                   filtered_personas, cumulative_context, round_num, current_step,
                   round_transcript, p_idx, calls, replies, fired_at, result>>
    /\ UNCHANGED <<debateFrame, extracted>>

\* process_steps.extend([process_steps[-1]] * (rounds - len(process_steps)))
Extended(steps, n) ==
    [i \in 1..n |-> IF i <= Len(steps) THEN steps[i] ELSE steps[Len(steps)]]

\* lines 45-49: process_steps is the list held by `extracted`, so that extend
\* changes extracted["process"]; process_steps[-1] of an empty list raises
Pad ==
    /\ pc = "pad"
    /\ transcript' = <<>>
    /\ IF Len(extracted.process) < rounds
       THEN IF extracted.process = <<>>
            THEN /\ exc' = "IndexError"
                 /\ pc' = "raised"
                 /\ UNCHANGED <<extracted, process_steps>>
            ELSE /\ extracted' = [extracted EXCEPT
                                    !.process = Extended(extracted.process, rounds)]
                 /\ process_steps' = Take(extracted'.process, rounds)
                 /\ pc' = "roles"
                 /\ UNCHANGED exc
       ELSE /\ process_steps' = Take(extracted.process, rounds)
            /\ pc' = "roles"
            /\ UNCHANGED <<extracted, exc>>
    /\ UNCHANGED <<alarm, stakeholder_roles, filtered_personas, cumulative_context,
                   round_num, current_step, round_transcript, p_idx, calls, replies,
                   fired_at, result>>
    /\ UNCHANGED debateFrame

\* line 54: ":" in line and any(s["name"] in line for s in stakeholders)
LineNamesStakeholder(line, stakeholders) ==
    \E i \in 1..Len(stakeholders) : stakeholders[i].name = line.name

\* lines 52-60: the role of each name, the last line of a name winning; a role
\* that mentions USAID is not recorded
RoleLines(hint, stakeholders) ==
    {i \in 1..Len(hint) : /\ LineNamesStakeholder(hint[i], stakeholders)
                          /\ "USAID" \notin RoleMentions(hint[i].role)}

StakeholderRoles(hint, stakeholders) ==
    LET idx == RoleLines(hint, stakeholders)
    IN  [n \in {hint[i].name : i \in idx} |->
            hint[CHOOSE i \in idx : /\ hint[i].name = n
                                    /\ \A j \in idx : hint[j].name = n => j <= i].role]

\* stakeholder_roles.get(name, default)
RoleOf(roles, name, default) == IF name \in DOMAIN roles THEN roles[name] ELSE default

\* line 63
FilteredPersonas(ps, roles) ==
    SelectSeq(ps, LAMBDA p : "USAID" \notin RoleMentions(RoleOf(roles, p.name, "")))

\* lines 51-63
Roles ==
    /\ pc = "roles"
    /\ stakeholder_roles' = StakeholderRoles(process_hint, extracted.stakeholders)
    /\ filtered_personas' = FilteredPersonas(personas, stakeholder_roles')
    /\ pc' = "context"
    /\ UNCHANGED <<alarm, exc, transcript, process_steps, cumulative_context,
                   round_num, current_step, round_transcript, p_idx, calls, replies,
                   fired_at, result>>
    /\ UNCHANGED <<debateFrame, extracted>>

\* lines 93-97 (the model has no scenarios text)
Context ==
    /\ pc = "context"
    /\ cumulative_context' = << ContextLine("initial", 0, "", "Initial Context"),
                                ContextLine("initial", 0, "", "Dilemma, Process") >>
    /\ pc' = "for"
    /\ UNCHANGED <<alarm, exc, transcript, process_steps, stakeholder_roles,
                   filtered_personas, round_num, current_step, round_transcript,
                   p_idx, calls, replies, fired_at, result>>
    /\ UNCHANGED <<debateFrame, extracted>>

\* lines 101-107: the next value of range(rounds), or the end of the loop and
\* of the try block
For ==
    /\ pc = "for"
    /\ IF round_num + 1 < rounds
       THEN /\ round_num' = round_num + 1
            /\ current_step' = process_steps[round_num' + 1]
            /\ round_transcript' = <<>>
            /\ p_idx' = 0
            /\ pc' = "persona"
       ELSE /\ pc' = "finally"
            /\ UNCHANGED <<round_num, current_step, round_transcript, p_idx>>
    /\ UNCHANGED <<alarm, exc, transcript, process_steps, stakeholder_roles,
                   filtered_personas, cumulative_context, calls, replies, fired_at, result>>
    /\ UNCHANGED <<debateFrame, extracted>>

\* line 132, cumulative_context[-1000:]: the end of the context, cut to the
\* window of the prompt
Last(s, n) == SubSeq(s, Max(1, Len(s) - n + 1), Len(s))

\* the statements of the round in progress, as lines of the context
LiveBlock ==
    [i \in 1..Len(round_transcript) |->
        ContextLine("entry", round_num + 1, round_transcript[i].agent,
                    round_transcript[i].message)]

\* a variant of lines 109-146 in which a prompt also carries the statements
\* made so far in the round in progress
Persona_LiveContext ==
    /\ pc = "persona"
    /\ IF p_idx < Len(filtered_personas)
       THEN /\ p_idx' = p_idx + 1
            /\ calls' = Append(calls,
                          [agent |-> filtered_personas[p_idx'].name,
                           round |-> round_num + 1,
                           role |-> RoleOf(stakeholder_roles,
                                           filtered_personas[p_idx'].name, "Team Member"),
                           context |-> Last(cumulative_context \o LiveBlock, MaxContextTail),
                           snapshot |-> cumulative_context \o LiveBlock])
            /\ pc' = "call"
            /\ UNCHANGED replies
       ELSE /\ pc' = "round_end"
            /\ UNCHANGED <<p_idx, calls, replies>>
    /\ UNCHANGED <<alarm, exc, transcript, process_steps, stakeholder_roles,
                   filtered_personas, cumulative_context, round_num, current_step,
                   round_transcript, fired_at, result>>
    /\ UNCHANGED <<debateFrame, extracted>>

\* lines 109-146: the next persona is prompted and its call sent, or the
\* round's loop ends.  The prompt carries the end of the cumulative context
\* (field context); field snapshot is the history of the whole context the
\* prompt was cut from.
Persona ==
    /\ pc = "persona"
    /\ IF p_idx < Len(filtered_personas)
       THEN /\ p_idx' = p_idx + 1
            /\ calls' = Append(calls,
                          [agent |-> filtered_personas[p_idx'].name,
                           round |-> round_num + 1,
                           role |-> RoleOf(stakeholder_roles,
                                           filtered_personas[p_idx'].name, "Team Member"),
                           context |-> Last(cumulative_context, MaxContextTail),
                           snapshot |-> cumulative_context])
            /\ pc' = "call"
            /\ UNCHANGED replies
       ELSE /\ pc' = "round_end"
            /\ UNCHANGED <<p_idx, calls, replies>>
    /\ UNCHANGED <<alarm, exc, transcript, process_steps, stakeholder_roles,
                   filtered_personas, cumulative_context, round_num, current_step,
                   round_transcript, fired_at, result>>
    /\ UNCHANGED <<debateFrame, extracted>>

\* The Gateway's answers to one persona prompt: "error" (the call raises),
\* "text" (content that is no JSON), "badjson" (JSON that is no object with the
\* four keys), or a JSON object with agent, round, step and message: the one
\* the prompt asks for, or one with other values
EchoEntry(name, r, s) == Entry(name, r, s, "statement")
OtherEntry == Entry("Moderator", 7, "Gateway step", "statement")

DebateReplies(mode, name, r, s) ==
    CASE mode = "down" -> {[kind |-> "error", entry |-> OtherEntry]}
      [] mode = "faithful" -> {[kind |-> "ok", entry |-> EchoEntry(name, r, s)]}
      [] OTHER -> {[kind |-> k, entry |-> OtherEntry] : k \in {"error", "text", "badjson"}}
                  \cup {[kind |-> "ok", entry |-> e] :
                          e \in {EchoEntry(name, r, s), OtherEntry}}

\* the exception a reply raises inside the inner try (lines 137-152)
ReplyException(kind) ==
    CASE kind = "error" -> "APIError"
      [] kind = "text" -> "JSONDecodeError"
      [] kind = "badjson" -> "ValueError"
      [] OTHER -> "none"

\* a variant of lines 147-152 that appends an accepted entry to the transcript
\* at once instead of collecting the round's entries in round_transcript
GatewayReply_Direct ==
    /\ pc = "call"
    /\ \E reply \in DebateReplies(gw, filtered_personas[p_idx].name,
                                  round_num + 1, current_step) :
         /\ replies' = Append(replies, reply.kind)
         /\ IF reply.kind = "ok"
            THEN /\ transcript' = Append(transcript, reply.entry)
                 /\ pc' = "persona"
                 /\ UNCHANGED exc
            ELSE /\ exc' = ReplyException(reply.kind)
                 /\ pc' = "reraise"
                 /\ UNCHANGED transcript
    /\ UNCHANGED <<alarm, round_transcript, process_steps, stakeholder_roles,
                   filtered_personas, cumulative_context, round_num, current_step,
                   p_idx, calls, fired_at, result>>
    /\ UNCHANGED <<debateFrame, extracted>>

\* a variant of lines 147-152 that takes any answer that is no JSON object with
\* the four keys as the message of an entry built from the loop variables
GatewayReply_Lenient ==
    /\ pc = "call"
    /\ \E reply \in DebateReplies(gw, filtered_personas[p_idx].name,
                                  round_num + 1, current_step) :
         /\ replies' = Append(replies, reply.kind)
         /\ IF reply.kind = "ok"
            THEN /\ round_transcript' = Append(round_transcript, reply.entry)
                 /\ pc' = "persona"
                 /\ UNCHANGED exc
            ELSE IF reply.kind \in {"text", "badjson"}
            THEN /\ round_transcript' =
                      Append(round_transcript,
                             Entry(filtered_personas[p_idx].name, round_num + 1,
                                   current_step, "whole text"))
                 /\ pc' = "persona"
                 /\ UNCHANGED exc
            ELSE /\ exc' = ReplyException(reply.kind)
                 /\ pc' = "reraise"
                 /\ UNCHANGED round_transcript
    /\ UNCHANGED <<alarm, transcript, process_steps, stakeholder_roles,
                   filtered_personas, cumulative_context, round_num, current_step,
                   p_idx, calls, fired_at, result>>
    /\ UNCHANGED <<debateFrame, extracted>>

\* lines 147-152: the call returns; a well-formed object is appended as it is,
\* anything else raises
GatewayReply ==
    /\ pc = "call"
    /\ \E reply \in DebateReplies(gw, filtered_personas[p_idx].name,
                                  round_num + 1, current_step) :
         /\ replies' = Append(replies, reply.kind)
         /\ IF reply.kind = "ok"
            THEN /\ round_transcript' = Append(round_transcript, reply.entry)
                 /\ pc' = "persona"
                 /\ UNCHANGED exc
            ELSE /\ exc' = ReplyException(reply.kind)
                 /\ pc' = "reraise"
                 /\ UNCHANGED round_transcript
    /\ UNCHANGED <<alarm, transcript, process_steps, stakeholder_roles,
                   filtered_personas, cumulative_context, round_num, current_step,
                   p_idx, calls, fired_at, result>>
    /\ UNCHANGED <<debateFrame, extracted>>

\* a variant of the except clause of lines 153-155 that absorbs the failure:
\* a fallback statement is recorded for the persona and the round goes on
Reraise_Fallback ==
    /\ pc = "reraise"
    /\ round_transcript' =
         Append(round_transcript,
                Entry(filtered_personas[p_idx].name, round_num + 1, current_step, "fallback"))
    /\ exc' = "none"
    /\ pc' = "persona"
    /\ UNCHANGED <<alarm, transcript, process_steps, stakeholder_roles,
                   filtered_personas, cumulative_context, round_num, current_step,
                   p_idx, calls, replies, fired_at, result>>
    /\ UNCHANGED <<debateFrame, extracted>>

\* lines 153-155: print and raise
Reraise ==
    /\ pc = "reraise"
    /\ pc' = "finally"
    /\ UNCHANGED <<alarm, exc, transcript, process_steps, stakeholder_roles,
                   filtered_personas, cumulative_context, round_num, current_step,
                   round_transcript, p_idx, calls, replies, fired_at, result>>
    /\ UNCHANGED <<debateFrame, extracted>>

\* lines 159-161
RoundBlock(r, s, entries) ==
    <<ContextLine("header", r, "", s)>>
    \o [i \in 1..Len(entries) |->
          ContextLine("entry", r, entries[i].agent, entries[i].message)]

\* a variant of lines 157-158 in which the round's statements replace the
\* transcript instead of extending it
RoundEnd_Overwrite ==
    /\ pc = "round_end"
    /\ transcript' = round_transcript
    /\ pc' = "context_append"
    /\ UNCHANGED <<alarm, exc, process_steps, stakeholder_roles, filtered_personas,
                   cumulative_context, round_num, current_step, round_transcript,
                   p_idx, calls, replies, fired_at, result>>
    /\ UNCHANGED <<debateFrame, extracted>>

\* lines 157-158: the round's statements join the transcript in one extend
RoundEnd ==
    /\ pc = "round_end"
    /\ transcript' = transcript \o round_transcript
    /\ pc' = "context_append"
    /\ UNCHANGED <<alarm, exc, process_steps, stakeholder_roles, filtered_personas,
                   cumulative_context, round_num, current_step, round_transcript,
                   p_idx, calls, replies, fired_at, result>>
    /\ UNCHANGED <<debateFrame, extracted>>

\* a variant of lines 159-161 in which the round's block replaces the context
ContextAppend_Reset ==
    /\ pc = "context_append"
    /\ cumulative_context' = RoundBlock(round_num + 1, current_step, round_transcript)
    /\ pc' = "for"
    /\ UNCHANGED <<alarm, exc, transcript, process_steps, stakeholder_roles,
                   filtered_personas, round_num, current_step, round_transcript,
                   p_idx, calls, replies, fired_at, result>>
    /\ UNCHANGED <<debateFrame, extracted>>

\* lines 159-161: the header of the round and one line per statement are
\* added to the end of the cumulative context
ContextAppend ==
    /\ pc = "context_append"
    /\ cumulative_context' =
         cumulative_context \o RoundBlock(round_num + 1, current_step, round_transcript)
    /\ pc' = "for"
    /\ UNCHANGED <<alarm, exc, transcript, process_steps, stakeholder_roles,
                   filtered_personas, round_num, current_step, round_transcript,
                   p_idx, calls, replies, fired_at, result>>
    /\ UNCHANGED <<debateFrame, extracted>>

\* lines 166-172: the note is added to a non-empty transcript only
SystemEntry(rn, cs) ==
    Entry("System",
          IF rn # -1 THEN rn + 1 ELSE 1,
          IF cs # Unbound THEN cs ELSE "Unknown",
          "Simulation interrupted")

\* a variant of lines 166-172 without the `if transcript:` guard
Interrupted_Always(t, rn, cs) == Append(t, SystemEntry(rn, cs))

Interrupted(t, rn, cs) == IF t # <<>> THEN Append(t, SystemEntry(rn, cs)) ELSE t

\* a variant of the except clause of lines 163-172 that keeps the statements
\* of the round in progress
Handler_KeepRound ==
    /\ pc = "handler"
    /\ transcript' = Interrupted(transcript \o round_transcript, round_num, current_step)
    /\ exc' = "none"
    /\ pc' = "finally"
    /\ UNCHANGED <<alarm, process_steps, stakeholder_roles, filtered_personas,
                   cumulative_context, round_num, current_step, round_transcript,
                   p_idx, calls, replies, fired_at, result>>
    /\ UNCHANGED <<debateFrame, extracted>>

\* lines 163-172: except TimeoutException
Handler ==
    /\ pc = "handler"
    /\ transcript' = Interrupted(transcript, round_num, current_step)
    /\ exc' = "none"
    /\ pc' = "finally"
    /\ UNCHANGED <<alarm, process_steps, stakeholder_roles, filtered_personas,
                   cumulative_context, round_num, current_step, round_transcript,
                   p_idx, calls, replies, fired_at, result>>
    /\ UNCHANGED <<debateFrame, extracted>>

\* lines 173-176: the alarm is disabled; the transcript is returned unless an
\* exception is on its way out
Finally ==
    /\ pc = "finally"
    /\ alarm' = "off"
    /\ IF exc = "none"
       THEN /\ result' = transcript
            /\ pc' = "returned"
       ELSE /\ pc' = "raised"
            /\ UNCHANGED result
    /\ UNCHANGED <<exc, transcript, process_steps, stakeholder_roles,
                   filtered_personas, cumulative_context, round_num, current_step,
                   round_transcript, p_idx, calls, replies, fired_at>>
    /\ UNCHANGED <<debateFrame, extracted>>

\* where the TimeoutException raised by timeout_handler (lines 13-15) takes
\* the control: to the except clause of line 163 from inside the try block, out
\* of the function from anywhere else
AfterTimeout(at) == IF at \in InTry THEN "handler" ELSE "raised"

\* SIGALRM is delivered while simulate_debate runs: the handler raises at the
\* current program location. The timer is one-shot.
Alarm ==
    /\ alarm = "armed"
    /\ pc \in InSetUp \cup InTry \cup {"finally"}
    /\ alarm' = "off"
    /\ fired_at' = pc
    /\ exc' = IF AfterTimeout(pc) = "handler" THEN "none" ELSE "TimeoutException"
    /\ pc' = AfterTimeout(pc)
    /\ UNCHANGED <<transcript, process_steps, stakeholder_roles, filtered_personas,
                   cumulative_context, round_num, current_step, round_transcript,
                   p_idx, calls, replies, result>>
    /\ UNCHANGED <<debateFrame, extracted>>

-----------------------------------------------------------------------------
(* summarizer.py *)

\* no analysis stored yet
NoSummary == [summary |-> "", keywords |-> <<>>, suggestion |-> <<>>]

\* lines 58-60
FallbackTriple ==
    [summary |-> "The debate focused on key decision points, but a detailed summary could not be generated due to an error.",
     keywords |-> <<"decision", "stakeholders", "process", "debate">>,
     suggestion |-> <<"Consider reviewing the process steps and stakeholder roles to ensure alignment and clarity.">>]

SummaryKeys == {"summary", "keywords", "faultlines", "chokepoints", "suggestion"}

\* the JSON object the Gateway answers with, carrying the keys ks
SummaryObject(ks) ==
    [keys |-> ks, summary |-> "Gateway summary", keywords |-> <<"budget", "security">>,
     faultlines |-> "Gateway faultlines", chokepoints |-> "Gateway chokepoints",
     suggestion |-> "Gateway suggestion"]

SummaryReplies(mode) ==
    CASE mode = "down" -> {[kind |-> "error", obj |-> SummaryObject({})]}
      [] mode = "faithful" -> {[kind |-> "json", obj |-> SummaryObject(SummaryKeys)]}
      [] OTHER -> {[kind |-> k, obj |-> SummaryObject({})] : k \in {"error", "text", "nondict"}}
                  \cup {[kind |-> "json", obj |-> SummaryObject(ks)] : ks \in SUBSET SummaryKeys}

\* a variant of summarize_and_analyze that answers every failure with the
\* defaults of lines 46-50 instead of the triple of lines 58-60
summarize_and_analyze_Defaults(reply) ==
    [summary |-> "No summary generated.",
     keywords |-> <<>>,
     suggestion |->
       <<"Faultlines:", "No faultlines identified.",
         "Chokepoints:", "No chokepoints identified.",
         "Recommendations:", "No suggestions provided.">>]

\* lines 34-61: one Gateway call; anything but a JSON object gives the fixed
\* triple
summarize_and_analyze(reply) ==
    IF reply.kind # "json"
    THEN FallbackTriple
    ELSE [summary |-> Get(reply.obj, "summary", "No summary generated."),
          keywords |-> Get(reply.obj, "keywords", <<>>),
          suggestion |->
            <<"Faultlines:", Get(reply.obj, "faultlines", "No faultlines identified."),
              "Chokepoints:", Get(reply.obj, "chokepoints", "No chokepoints identified."),
              "Recommendations:", Get(reply.obj, "suggestion", "No suggestions provided.")>>]

-----------------------------------------------------------------------------
(* app.py: the handlers that chain the four stages.  Steps 1 and 2 call the   *)
(* agents with signatures src/agents does not have (extract_info with three   *)
(* arguments, build_personas); the model lets them call extract_info(dilemma, *)
(* process_hint) and generate_personas(extracted).                            *)

\* lines 188-197: "Extract Decision Structure"
SubmitExtraction ==
    /\ step = 1
    /\ ex_pc = "idle"
    /\ ex_pc' = "start"
    /\ UNCHANGED <<ex_reply, ex_path, extracted, inputVars, personaVars, personas,
                   rounds, max_simulation_time, debateVars, appVars>>

\* lines 198-200
ExtractionReturned ==
    /\ step = 1
    /\ ex_pc = "returned"
    /\ step' = 2
    /\ UNCHANGED <<summary, summary_calls, error, extractVars, extracted, inputVars, personaVars,
                   personas, rounds, max_simulation_time, debateVars>>

\* lines 316-335: "Save and Generate Personas", with the stakeholders unedited
SaveAndGeneratePersonas ==
    /\ step = 2
    /\ gp_pc = "idle"
    /\ error = ""
    /\ IF /\ MIN_STAKEHOLDERS <= Len(extracted.stakeholders)
          /\ Len(extracted.stakeholders) <= MAX_STAKEHOLDERS
       THEN /\ gp_pc' = "start"
            /\ UNCHANGED error
       ELSE /\ error' = "The simulation requires 3-10 stakeholders."
            /\ UNCHANGED gp_pc
    /\ UNCHANGED <<step, summary, summary_calls, gp_stakeholders, gp_log, rng, personas, extractVars,
                   extracted, inputVars, rounds, max_simulation_time, debateVars>>

\* lines 337-339
PersonasReturned ==
    /\ step = 2
    /\ gp_pc = "returned"
    /\ step' = 3
    /\ UNCHANGED <<summary, summary_calls, error, extractVars, extracted, inputVars, personaVars,
                   personas, rounds, max_simulation_time, debateVars>>

\* lines 405-414: "Launch Simulation" calls simulate_debate with the default
\* rounds and max_simulation_time
LaunchSimulation ==
    /\ step = 3
    /\ pc = "idle"
    /\ pc' = "arm"
    /\ UNCHANGED <<alarm, exc, transcript, process_steps, stakeholder_roles,
                   filtered_personas, cumulative_context, round_num, current_step,
                   round_transcript, p_idx, calls, replies, fired_at, result>>
    /\ UNCHANGED <<debateFrame, extracted>>

\* lines 415-417: the transcript is stored and the app moves to step 4
SimulationComplete ==
    /\ step = 3
    /\ pc = "returned"
    /\ step' = 4
    /\ UNCHANGED <<summary, summary_calls, error, extractVars, extracted, inputVars, personaVars,
                   personas, rounds, max_simulation_time, debateVars>>

\* a variant of lines 418-419 that moves on to the analysis after a failure
SimulationFailed_Advance ==
    /\ step = 3
    /\ pc = "raised"
    /\ error = ""
    /\ error' = "Simulation failed"
    /\ step' = 4
    /\ UNCHANGED <<summary, summary_calls, extractVars, extracted, inputVars, personaVars,
                   personas, rounds, max_simulation_time, debateVars>>

\* lines 418-419: except Exception: st.error; the app stays on step 3
SimulationFailed ==
    /\ step = 3
    /\ pc = "raised"
    /\ error = ""
    /\ error' = "Simulation failed"
    /\ UNCHANGED <<step, summary, summary_calls, extractVars, extracted, inputVars, personaVars,
                   personas, rounds, max_simulation_time, debateVars>>

\* lines 498-517: "Analyze and Optimize": summarize_and_analyze on the stored
\* transcript, then generate_visuals and save_simulation, which may raise
AnalyzeAndOptimize ==
    /\ step = 4
    /\ summary = NoSummary
    /\ \E reply \in SummaryReplies(gw) :
         /\ summary' = summarize_and_analyze(reply)
         /\ summary_calls' = Append(summary_calls, reply.kind)
    /\ \E saved \in BOOLEAN :
         IF saved
         THEN /\ step' = 5
              /\ UNCHANGED error
         ELSE /\ error' = "Analysis failed"
              /\ UNCHANGED step
    /\ UNCHANGED <<extractVars, extracted, inputVars, personaVars, personas,
                   rounds, max_simulation_time, debateVars>>

-----------------------------------------------------------------------------
(* States of the parts that are not running *)

ExtractIdle ==
    /\ ex_pc = "idle"
    /\ ex_reply = NoReply
    /\ ex_path = "none"

PersonasIdle ==
    /\ gp_pc = "idle"
    /\ gp_stakeholders = <<>>
    /\ gp_log = <<>>

DebateIdle ==
    /\ pc = "idle"
    /\ alarm = "off"
    /\ exc = "none"
    /\ transcript = <<>>
    /\ process_steps = <<>>
    /\ stakeholder_roles = <<>>
    /\ filtered_personas = <<>>
    /\ cumulative_context = <<>>
    /\ round_num = -1
    /\ current_step = Unbound
    /\ round_transcript = <<>>
    /\ p_idx = 0
    /\ calls = <<>>
    /\ replies = <<>>
    /\ fired_at = "never"
    /\ result = <<>>

-----------------------------------------------------------------------------
(* ExtractSpec: extract_info called once on every input of the model *)

InitExtract ==
    /\ gw = "any"
    /\ dilemma \in Dilemmas
    /\ process_hint \in Hints
    /\ ex_pc = "start"
    /\ ex_reply = NoReply
    /\ ex_path = "none"
    /\ extracted = NoStructure
    /\ PersonasIdle
    /\ rng = 0
    /\ personas = <<>>
    /\ rounds = 0
    /\ max_simulation_time = 0
    /\ DebateIdle
    /\ step = 0
    /\ summary = NoSummary
    /\ summary_calls = <<>>
    /\ error = ""

NextExtract == ExtractInfo

ExtractSpec == InitExtract /\ [][NextExtract]_vars

-----------------------------------------------------------------------------
(* Claims on extract_info *)

StakeholderNames(st) == [i \in 1..Len(st) |-> st[i].name]

PairwiseUnique(s) == \A i, j \in 1..Len(s) : s[i] = s[j] => i = j

\* C1: every structure extract_info returns, by the Gateway path or by
\* mock_extraction, has between MIN_STAKEHOLDERS and MAX_STAKEHOLDERS
\* stakeholders and a non-empty process list.
C1_BoundsAndProcess ==
    ex_pc = "returned" =>
        /\ MIN_STAKEHOLDERS <= Len(extracted.stakeholders)
        /\ Len(extracted.stakeholders) <= MAX_STAKEHOLDERS
        /\ extracted.process # <<>>

\* C2: in every structure extract_info returns the stakeholder names are
\* pairwise unique.
C2_UniqueNames ==
    ex_pc = "returned" => PairwiseUnique(StakeholderNames(extracted.stakeholders))

-----------------------------------------------------------------------------
(* PersonaSpec: generate_personas called on a decision structure *)

RngSeeds == {0, 1}

StakeholderValues ==
    {[Stakeholder(n, "Risk-Averse", "Political Pressure", "Confirmation Bias",
                  "Conservative Decision-Making")
        EXCEPT !.bio = x.bio, !.tone = x.tone] :
        n \in Names,
        x \in {[bio |-> Missing, tone |-> Missing],
               [bio |-> "Extracted bio", tone |-> "stern"]}}

InitPersona ==
    /\ gw = "any"
    /\ dilemma = NoDilemma
    /\ process_hint = <<>>
    /\ ex_pc = "returned"
    /\ ex_reply = NoReply
    /\ ex_path = "none"
    /\ \E st \in SeqsUpTo(StakeholderValues, MaxStakeholdersIn) :
         extracted = [decision_type |-> "Other", stakeholders |-> st,
                      issues |-> <<"Budget gap">>,
                      process |-> <<"Situation Assessment">>]
    /\ gp_pc = "start"
    /\ gp_stakeholders = <<>>
    /\ gp_log = <<>>
    /\ rng \in RngSeeds
    /\ personas = <<>>
    /\ rounds = 0
    /\ max_simulation_time = 0
    /\ DebateIdle
    /\ step = 0
    /\ summary = NoSummary
    /\ summary_calls = <<>>
    /\ error = ""

NextPersona ==
    \/ GP_Start
    \/ GP_Iteration
    \/ GP_Return

PersonaSpec == InitPersona /\ [][NextPersona]_vars

\* C3: generate_personas returns one persona per stakeholder, in stakeholder
\* order, and each persona name matches exactly one input stakeholder.
C3_Bijection ==
    gp_pc = "returned" =>
        /\ Len(personas) = Len(extracted.stakeholders)
        /\ \A i \in 1..Len(personas) :
             /\ personas[i].name = extracted.stakeholders[i].name
             /\ Cardinality({j \in 1..Len(extracted.stakeholders) :
                               extracted.stakeholders[j].name = personas[i].name}) = 1

-----------------------------------------------------------------------------
(* DebateSpec: simulate_debate called once on the inputs of the model *)

\* the persona of a name, as generate_personas builds it without the Gateway
PersonaOf(name) ==
    BuildPersona(<<Stakeholder(name, "Risk-Averse", "Political Pressure",
                               "Confirmation Bias", "Conservative Decision-Making")>>,
                 name, 0, "error")

StakeholdersOf(ps) ==
    [i \in 1..Len(ps) |-> Stakeholder(ps[i].name, "Risk-Averse", "Political Pressure",
                                      "Confirmation Bias", "Conservative Decision-Making")]

DebateHints ==
    {<<>>, <<[name |-> "Ann", role |-> "Manager"],
             [name |-> "Bob", role |-> "USAID Liaison"]>>}

\* max_simulation_time: no budget, and the default of line 17
TimeBudgets == {0, 120}

InitDebate ==
    /\ gw = "any"
    /\ dilemma = NoDilemma
    /\ process_hint \in DebateHints
    /\ ex_pc = "returned"
    /\ ex_reply = NoReply
    /\ ex_path = "none"
    /\ gp_pc = "returned"
    /\ gp_stakeholders = <<>>
    /\ gp_log = <<>>
    /\ rng = 0
    /\ \E names \in SeqsUpTo(Names, MaxPersonas) :
         personas = [i \in 1..Len(names) |-> PersonaOf(names[i])]
    /\ \E n \in 0..MaxRounds :
         extracted = [decision_type |-> "Other",
                      stakeholders |-> StakeholdersOf(personas),
                      issues |-> <<"Budget gap">>,
                      process |-> Take(FixedProcess, n)]
    /\ rounds \in 0..MaxRounds
    /\ max_simulation_time \in TimeBudgets
    /\ pc = "arm"
    /\ alarm = "off"
    /\ exc = "none"
    /\ transcript = <<>>
    /\ process_steps = <<>>
    /\ stakeholder_roles = <<>>
    /\ filtered_personas = <<>>
    /\ cumulative_context = <<>>
    /\ round_num = -1
    /\ current_step = Unbound
    /\ round_transcript = <<>>
    /\ p_idx = 0
    /\ calls = <<>>
    /\ replies = <<>>
    /\ fired_at = "never"
    /\ result = <<>>
    /\ step = 0
    /\ summary = NoSummary
    /\ summary_calls = <<>>
    /\ error = ""

NextDebate ==
    \/ Arm
    \/ Client
    \/ Pad
    \/ Roles
    \/ Context
    \/ For
    \/ Persona
    \/ GatewayReply
    \/ Reraise
    \/ RoundEnd
    \/ ContextAppend
    \/ Handler
    \/ Finally
    \/ Alarm

DebateSpec == InitDebate /\ [][NextDebate]_vars

-----------------------------------------------------------------------------
(* Claims on simulate_debate *)

NonSystem(t) == SelectSeq(t, LAMBDA e : e.agent # "System")

EntriesOfRound(t, r) == SelectSeq(NonSystem(t), LAMBDA e : e.round = r)

AgentsOf(t) == [i \in 1..Len(t) |-> t[i].agent]

NamesOf(ps) == [i \in 1..Len(ps) |-> ps[i].name]

GatewayExceptions == {"APIError", "JSONDecodeError", "ValueError"}

\* a call of simulate_debate has failed
Failed == \E i \in 1..Len(replies) : replies[i] # "ok"

\* the statements recorded in the cumulative context
Recorded == SelectSeq(cumulative_context, LAMBDA l : l.kind = "entry")

\* the number of rounds whose statements had joined the transcript (line 158)
\* when the deadline fired inside the try statement: round_num counts from 0
\* and is the round in progress up to line 158, the round just extended after
CompletedRounds ==
    IF fired_at \in {"for", "context_append"} THEN round_num + 1 ELSE round_num

\* C4: in a returned transcript the round values are non-decreasing and span
\* 1..k for some k <= rounds (k = rounds when the debate was not interrupted),
\* and the agents of each round are the input personas in their order.
C4_RoundOrder ==
    pc = "returned" =>
        /\ \A i, j \in 1..Len(result) : i < j => result[i].round <= result[j].round
        /\ \E k \in 0..rounds :
             /\ {e.round : e \in Range(NonSystem(result))} \subseteq 1..k
             /\ \A r \in 1..k : AgentsOf(EntriesOfRound(result, r)) = NamesOf(personas)
             /\ fired_at = "never" => k = rounds

\* C5 (as claimed): a failing per-persona call is absorbed (retried, then
\* replaced by a fallback statement), so that it never aborts the debate:
\* simulate_debate never raises a Gateway or parsing exception.
C5_FailureAbsorbed == pc = "raised" => exc \notin GatewayExceptions

\* C5 (amended): a failing per-persona call is not retried and not replaced:
\* it is the last call made, nothing is appended for its persona, no further
\* persona is prompted, and simulate_debate ends by raising the exception (or
\* in its deadline handling when the alarm fires during the re-raise); it
\* returns no transcript unless the deadline fired.
C5_FailFast ==
    Failed =>
        /\ pc \in {"reraise", "handler", "finally", "raised", "returned"}
        /\ Len(replies) = Len(calls)
        /\ \A i \in 1..(Len(replies) - 1) : replies[i] = "ok"
        /\ Len(round_transcript) = p_idx - 1
        /\ pc = "returned" => fired_at = "reraise"
        /\ pc = "raised" =>
             /\ result = <<>>
             /\ alarm = "off"
             /\ \/ exc \in GatewayExceptions /\ fired_at = "never"
                \/ exc = "TimeoutException" /\ fired_at = "finally"

\* C5 witness: a call of the second round failed after a complete first round,
\* and simulate_debate raised its exception.
C5_Witness ==
    /\ pc = "raised"
    /\ exc \in GatewayExceptions
    /\ round_num = 1
    /\ transcript # <<>>

\* C7: with max_simulation_time = 0 and rounds >= 2, a returned transcript holds
\* at most one round's worth of statements (at most len(personas)), and its
\* System entry when it holds anything.
C7_ZeroBudgetStopsEarly ==
    (pc = "returned" /\ max_simulation_time = 0 /\ rounds >= 2) =>
        /\ Len(NonSystem(result)) <= Len(personas)
        /\ result # <<>> => Len(result) - Len(NonSystem(result)) = 1

\* C8 (as claimed): when the deadline elapses during a persona's call, the call
\* completes and its statement is in the returned transcript: every call made
\* has its statement there.
C8_InFlightCallCompletes ==
    (pc = "returned" /\ fired_at = "call") =>
        /\ Len(replies) = Len(calls)
        /\ Len(NonSystem(result)) = Len(calls)

\* C8 (amended): when the deadline elapses during a persona's call, the call is
\* abandoned: it gets no answer, and the returned transcript holds the
\* statements of the completed rounds only (followed by the System entry when
\* there are any), none of the round in progress.
C8_InFlightCallAbandoned ==
    (pc = "returned" /\ fired_at = "call") =>
        /\ Len(replies) = Len(calls) - 1
        /\ Len(round_transcript) = p_idx - 1
        /\ \A i \in 1..Len(Recorded) :
             /\ result[i].agent = Recorded[i].agent
             /\ result[i].message = Recorded[i].text
        /\ Len(NonSystem(result)) = round_num * Len(filtered_personas)
        /\ Len(NonSystem(result)) + Len(round_transcript) = Len(replies)

\* C8 witness: the deadline fired during the second call of the second round;
\* the statement already obtained in that round is not in the result.
C8_Witness ==
    /\ pc = "returned"
    /\ fired_at = "call"
    /\ round_num = 1
    /\ round_transcript # <<>>
    /\ result # <<>>

C9_WitnessEmpty ==
    /\ pc = "returned"
    /\ fired_at \in InTry
    /\ calls # <<>>
    /\ result = <<>>

\* C10: whenever the deadline fires between the entry and the exit of
\* simulate_debate, the call returns a transcript: the TimeoutException never
\* escapes to the caller.
C10_TimeoutNeverEscapes == pc = "raised" => exc # "TimeoutException"

-----------------------------------------------------------------------------
(* PipelineSpec: extraction, persona synthesis, debate and summarization       *)
(* chained by the app, with a Gateway that is down or that follows the prompts *)

InitPipeline ==
    /\ gw \in {"down", "faithful"}
    /\ dilemma \in Dilemmas
    /\ process_hint \in Hints
    /\ ExtractIdle
    /\ extracted = NoStructure
    /\ PersonasIdle
    /\ rng \in RngSeeds
    /\ personas = <<>>
    /\ rounds = DEBATE_ROUNDS
    /\ max_simulation_time \in {t \in TimeBudgets : t > 0}
    /\ DebateIdle
    /\ step = 1
    /\ summary = NoSummary
    /\ summary_calls = <<>>
    /\ error = ""

NextPipeline ==
    \/ SubmitExtraction
    \/ ExtractInfo
    \/ ExtractionReturned
    \/ SaveAndGeneratePersonas
    \/ GP_Start
    \/ GP_Iteration
    \/ GP_Return
    \/ PersonasReturned
    \/ LaunchSimulation
    \/ NextDebate
    \/ SimulationComplete
    \/ SimulationFailed
    \/ AnalyzeAndOptimize

PipelineSpec == InitPipeline /\ [][NextPipeline]_vars

-----------------------------------------------------------------------------
(* Fallback results under a Gateway that is down *)

\* the Gateway outcomes of a run of generate_personas in which every call fails
AllFail(stakeholders) == [i \in 1..Len(stakeholders) |-> "error"]

\* C11 (as claimed): with the Gateway failing on every call, generate_personas
\* returns the same persona list on every run over the same structure, whatever
\* the state of the random module.
C11_FallbackDeterministic ==
    (gw = "down" /\ gp_pc = "returned") =>
        \A s \in RngSeeds : personas = generate_personas(gp_stakeholders, s, AllFail(gp_stakeholders))

\* C11 (amended): with the Gateway failing on every call, extract_info returns
\* mock_extraction(dilemma, process_hint), a function of its inputs, and
\* summarize_and_analyze returns its fixed triple; generate_personas returns
\* personas whose names, bios and behaviour templates are fixed by the
\* structure, but whose goals, biases and tone are drawn from the random module:
\* two runs return the same list when they start from the same random state.
C11_FallbackUpToRandomState ==
    gw = "down" =>
        /\ (ex_pc = "returned" /\ pc = "idle") =>
             /\ ex_path = "except"
             /\ extracted = mock_extraction(dilemma, process_hint)
        /\ gp_pc = "returned" =>
             /\ \E s \in RngSeeds :
                  personas = generate_personas(gp_stakeholders, s, AllFail(gp_stakeholders))
             /\ \A s \in RngSeeds :
                  LET other == generate_personas(gp_stakeholders, s, AllFail(gp_stakeholders))
                  IN  /\ Len(personas) = Len(other)
                      /\ \A i \in 1..Len(personas) :
                           /\ personas[i].name = other[i].name
                           /\ personas[i].bio = other[i].bio
                           /\ personas[i].expected_behavior =
                                TemplatedBehavior(personas[i].name, personas[i].tone)
        /\ summary # NoSummary => summary = FallbackTriple

\* C11 witness: the three stages have returned their fallback results.
C11_Witness ==
    /\ gw = "down"
    /\ ex_path = "except"
    /\ gp_pc = "returned"
    /\ Len(personas) >= MIN_STAKEHOLDERS
    /\ summary = FallbackTriple

-----------------------------------------------------------------------------
(* Rounds, speakers and steps of simulate_debate (DebateSpec) *)

\* the names prompted in round r, in the order of the calls
PromptedIn(r) == AgentsOf(SelectSeq(calls, LAMBDA c : c.round = r))

\* C12: in every round the personas prompted are at least one, and they are the
\* full input list whenever the filter of line 63 keeps no persona.
C12_RoundHasSpeakers ==
    pc = "round_end" =>
        /\ PromptedIn(round_num + 1) # <<>>
        /\ FilteredPersonas(personas, stakeholder_roles) = <<>> =>
             PromptedIn(round_num + 1) = NamesOf(personas)

\* C13: called with an empty persona list, simulate_debate makes no Gateway
\* call and does not return a transcript (it fails with an error instead).
C13_EmptyPersonasFailFast ==
    personas = <<>> =>
        /\ calls = <<>>
        /\ pc # "returned"

\* C14: every statement appended in round index i for persona p has agent p's
\* name, round i + 1 and the step of round i, whatever the Gateway's object
\* carries.
C14_EntryFromLoopVariables ==
    pc \in {"persona", "call", "round_end"} =>
        \A k \in 1..Len(round_transcript) :
            /\ round_transcript[k].agent = filtered_personas[k].name
            /\ round_transcript[k].round = round_num + 1
            /\ round_transcript[k].step = current_step

\* C15: for every input process list, the empty one included, the set-up brings
\* the process list to exactly `rounds` entries and does not raise.
C15_ProcessPaddedToRounds ==
    /\ pc = "raised" => exc # "IndexError"
    /\ pc \in {"roles", "context"} \cup InTry => Len(process_steps) = rounds

-----------------------------------------------------------------------------
(* extract_info always returns (ExtractSpec) *)

\* the result of the validation of lines 152-171
ValidStructure(st) ==
    /\ st.decision_type \in DECISION_TYPES
    /\ MIN_STAKEHOLDERS <= Len(st.stakeholders)
    /\ Len(st.stakeholders) <= MAX_STAKEHOLDERS
    /\ \A i \in 1..Len(st.stakeholders) :
         LET x == st.stakeholders[i]
         IN  /\ x.name = "Unknown" \/ NameInHint(x.name, process_hint)
             /\ Missing \notin {x.name, x.psychological_traits, x.influences, x.biases,
                                x.historical_behavior}

\* C17: whatever the Gateway does (exception, empty content, content that is no
\* JSON, JSON of the wrong shape), extract_info ends by returning: the
\* validated Gateway result, or else the structure of mock_extraction.
C17_AlwaysReturnsStructure ==
    ex_pc = "returned" =>
        /\ ex_path \in {"gateway", "count", "name", "except"}
        /\ ex_path = "gateway" => (ex_reply.kind = "json" /\ ValidStructure(extracted))
        /\ ex_path # "gateway" => extracted = mock_extraction(dilemma, process_hint)
        /\ ex_reply.kind # "json" => ex_path = "except"

\* C17 witness: the Gateway answered with JSON that is no object, and
\* extract_info returned the fallback structure.
C17_Witness ==
    /\ ex_pc = "returned"
    /\ ex_reply.kind = "nondict"
    /\ ex_path = "except"
    /\ extracted = mock_extraction(dilemma, process_hint)

-----------------------------------------------------------------------------
(* SummarySpec: the analysis of a stored transcript, with a Gateway that may  *)
(* answer anything                                                            *)

\* transcripts the app may hold at step 4
StoredTranscripts ==
    SeqsUpTo({EchoEntry("Ann", 1, "Situation Assessment"),
              EchoEntry("Bob", 1, "Situation Assessment")}, 2)

InitSummary ==
    /\ gw = "any"
    /\ dilemma = NoDilemma
    /\ process_hint = <<>>
    /\ ex_pc = "returned"
    /\ ex_reply = NoReply
    /\ ex_path = "none"
    /\ extracted = NoStructure
    /\ gp_pc = "returned"
    /\ gp_stakeholders = <<>>
    /\ gp_log = <<>>
    /\ rng = 0
    /\ personas = <<>>
    /\ rounds = DEBATE_ROUNDS
    /\ max_simulation_time = 120
    /\ pc = "returned"
    /\ alarm = "off"
    /\ exc = "none"
    /\ transcript = <<>>
    /\ process_steps = <<>>
    /\ stakeholder_roles = <<>>
    /\ filtered_personas = <<>>
    /\ cumulative_context = <<>>
    /\ round_num = -1
    /\ current_step = Unbound
    /\ round_transcript = <<>>
    /\ p_idx = 0
    /\ calls = <<>>
    /\ replies = <<>>
    /\ fired_at = "never"
    /\ result \in StoredTranscripts
    /\ step = 4
    /\ summary = NoSummary
    /\ summary_calls = <<>>
    /\ error = ""

NextSummary == AnalyzeAndOptimize

SummarySpec == InitSummary /\ [][NextSummary]_vars

\* C18: an invocation of summarize_and_analyze makes exactly one Gateway call,
\* and when the call fails or its content is no JSON object the result is the
\* fixed triple; a JSON object gives its fields, with the defaults of lines
\* 46-50 for the missing ones.
C18_SingleCallFixedTriple ==
    /\ summary = NoSummary => summary_calls = <<>>
    /\ summary # NoSummary =>
         /\ Len(summary_calls) = 1
         /\ summary_calls[1] # "json" => summary = FallbackTriple
         /\ summary_calls[1] = "json" =>
              /\ summary.summary \in {"Gateway summary", "No summary generated."}
              /\ summary.keywords \in {<<"budget", "security">>, <<>>}
              /\ Len(summary.suggestion) = 6

\* C18 witness: the Gateway's content was JSON but no object, and the result is
\* the fixed triple after one call.
C18_Witness ==
    /\ summary_calls = <<"nondict">>
    /\ summary = FallbackTriple

-----------------------------------------------------------------------------
(* generate_personas under partial Gateway failure (PersonaSpec) *)

\* lines 60: the bio a persona starts from
InitialBio(stakeholders, name) ==
    IF stakeholder_dict(stakeholders, name).bio # Missing
    THEN <<stakeholder_dict(stakeholders, name).bio>>
    ELSE GenericBio(name)

\* C19: generate_personas never aborts: every stakeholder gets its persona; a
\* failed profile request defaults the bio and the behaviour of that persona
\* only, and a request that succeeded leaves the Gateway's text in its persona
\* (bio and behaviour when the text has the two parts, bio alone otherwise).
C19_FailureDefaultsOnePersona ==
    gp_pc \in {"loop", "returned"} =>
        /\ Len(gp_log) = Len(personas)
        /\ gp_pc = "returned" => Len(personas) = Len(gp_stakeholders)
        /\ \A i \in 1..Len(personas) :
             LET p == personas[i]
             IN  /\ p.name = gp_stakeholders[i].name
                 /\ gp_log[i] \in {"error", "none"} =>
                      /\ p.bio = InitialBio(gp_stakeholders, p.name)
                      /\ p.expected_behavior = TemplatedBehavior(p.name, p.tone)
                 /\ gp_log[i] = "split" =>
                      /\ p.bio = <<"Gateway bio of", p.name>>
                      /\ p.expected_behavior = <<"Gateway behavior of", p.name>>
                 /\ gp_log[i] = "plain" =>
                      /\ p.bio = <<"Gateway text on", p.name>>
                      /\ p.expected_behavior = TemplatedBehavior(p.name, p.tone)

\* C19 witness: a request failed, the loop went on, and a later request
\* succeeded.
C19_Witness ==
    /\ gp_pc = "returned"
    /\ Len(personas) >= 2
    /\ gp_log[1] = "error"
    /\ gp_log[2] = "split"
    /\ personas[2].bio = <<"Gateway bio of", personas[2].name>>

-----------------------------------------------------------------------------
(* Number of rounds of the pipeline's debate (PipelineSpec) *)

\* the process list of the structure as extract_info returned it (Pad may
\* extend extracted["process"] afterwards)
ProcessReturned == extract_info(dilemma, process_hint, ex_reply).structure.process

\* C20: a debate of the pipeline that runs to its end has as many rounds as the
\* structure's process list has steps, round i using step i.
C20_RoundsEqualProcessLength ==
    (step >= 3 /\ pc = "returned" /\ fired_at = "never") =>
        /\ round_num + 1 = Len(ProcessReturned)
        /\ process_steps = ProcessReturned

-----------------------------------------------------------------------------
(* simulate_debate and its arguments *)

\* C21: simulate_debate leaves its inputs as they were: no step of a call
\* changes the extracted structure, its process list included, or the personas.
C21_InputsUnchanged == [][extracted' = extracted /\ personas' = personas]_vars

\* s is an initial part of t
IsPrefix(s, t) == Len(s) <= Len(t) /\ SubSeq(t, 1, Len(s)) = s

\* s is a final part of t
IsSuffix(s, t) == Len(s) <= Len(t) /\ SubSeq(t, Len(t) - Len(s) + 1, Len(t)) = s

\* C22: the cumulative context only grows during a call.  No step shortens or
\* resets it; the step that ends round i appends the header of round i and
\* then one line "- agent: message" per statement of the round, in the order
\* the statements were obtained; and a prompt carries only a bounded final
\* part of the context.
C22_ContextOnlyGrows ==
    [][ /\ IsPrefix(cumulative_context, cumulative_context')
        /\ (pc = "context_append" /\ pc' = "for") =>
             LET old == Len(cumulative_context)
                 new == cumulative_context'
             IN  /\ Len(new) = old + 1 + Len(round_transcript)
                 /\ new[old + 1].kind = "header"
                 /\ new[old + 1].round = round_num + 1
                 /\ new[old + 1].text = current_step
                 /\ \A k \in 1..Len(round_transcript) :
                      /\ new[old + 1 + k].kind = "entry"
                      /\ new[old + 1 + k].agent = round_transcript[k].agent
                      /\ new[old + 1 + k].text = round_transcript[k].message
        /\ calls' # calls =>
             LET c == calls'[Len(calls')]
             IN  /\ IsSuffix(c.context, cumulative_context)
                 /\ Len(c.context) = Min(Len(cumulative_context), MaxContextTail)
      ]_vars

\* C22 witness: two rounds were appended to the context, and the last prompt
\* carried less than the whole context
C22_Witness ==
    /\ pc = "for"
    /\ round_num = 1
    /\ Len(Recorded) = 2 * Len(personas)
    /\ calls # <<>>
    /\ Len(calls[Len(calls)].context) < Len(calls[Len(calls)].snapshot)

\* the rounds whose header is in the context ctx
HeaderRounds(ctx) == {ctx[i].round : i \in {k \in 1..Len(ctx) : ctx[k].kind = "header"}}

\* the number of statements of round r in the context ctx
LinesOfRound(ctx, r) ==
    Cardinality({k \in 1..Len(ctx) : ctx[k].kind = "entry" /\ ctx[k].round = r})

\* the number of calls made for round r
CallsOfRound(r) == Cardinality({k \in 1..Len(calls) : calls[k].round = r})

\* C23: the round barrier.  All prompts of one round are cut from the same
\* snapshot of the cumulative context, and a prompt of round r is issued only
\* after every call of the earlier rounds was answered and the blocks of all
\* those rounds were appended: its snapshot holds the blocks of rounds 1..r-1,
\* each with one line per call of that round, and nothing of round r.  The
\* property is stated of each call at the moment it is sent, when it is the
\* latest of the calls: calls is only appended to.
C23_RoundBarrier ==
    pc = "call" =>
        LET n == Len(calls)
            c == calls[n]
        IN  /\ \A j \in 1..n :
                 /\ calls[j].round <= c.round
                 /\ calls[j].round = c.round =>
                      /\ calls[j].snapshot = c.snapshot
                      /\ calls[j].context = c.context
                 /\ calls[j].round < c.round =>
                      /\ j <= Len(replies)
                      /\ replies[j] = "ok"
            /\ HeaderRounds(c.snapshot) = 1..(c.round - 1)
            /\ \A q \in 1..(c.round - 1) :
                 LinesOfRound(c.snapshot, q) = CallsOfRound(q)
            /\ LinesOfRound(c.snapshot, c.round) = 0

\* C23 witness: the second persona of the second round has been prompted,
\* after the first persona of that round was answered
C23_Witness ==
    /\ Len(calls) = 4
    /\ calls[4].round = 2
    /\ calls[3].round = 2
    /\ Len(replies) = 3
    /\ round_transcript # <<>>

-----------------------------------------------------------------------------
(* the parsing of a persona's answer *)

\* the kind of the answer just received
LastReply(rs) == rs[Len(rs)]

\* C24 (as claimed): parsing is lenient.  An answer that is a well-formed JSON
\* object is used as the entry, any other answer with content is accepted as
\* the message of an entry, and neither raises an error.
C24_LenientParsing ==
    [][ (replies' # replies /\ LastReply(replies') \in {"ok", "text", "badjson"}) =>
           /\ Len(round_transcript') = Len(round_transcript) + 1
           /\ exc' = "none"
      ]_vars

\* C24 (amended): parsing is strict.  Only an answer that is a JSON object with
\* the keys agent, round, step and message is accepted, and it is appended to
\* the round's statements as it is.  An answer that is no JSON raises
\* JSONDecodeError, JSON that is no such object raises ValueError; in both
\* cases nothing is recorded for the persona and the exception leaves
\* simulate_debate, which returns no transcript (unless the deadline fires
\* while the exception is re-raised).
C24_StrictParsing ==
    [][ /\ replies' # replies =>
            LET k == LastReply(replies')
                name == filtered_personas[p_idx].name
            IN  /\ k = "ok" =>
                     /\ Len(round_transcript') = Len(round_transcript) + 1
                     /\ LastReply(round_transcript') \in
                          {EchoEntry(name, round_num + 1, current_step), OtherEntry}
                     /\ SubSeq(round_transcript', 1, Len(round_transcript)) = round_transcript
                     /\ exc' = "none"
                     /\ pc' = "persona"
                /\ k \in {"text", "badjson"} =>
                     /\ round_transcript' = round_transcript
                     /\ exc' = (IF k = "text" THEN "JSONDecodeError" ELSE "ValueError")
                     /\ pc' = "reraise"
        /\ (pc' = "raised" /\ replies' # <<>> /\ fired_at' = "never") =>
               /\ LastReply(replies') # "ok"
               /\ LastReply(replies') = "text" => exc' = "JSONDecodeError"
               /\ LastReply(replies') = "badjson" => exc' = "ValueError"
               /\ result' = <<>>
        /\ (pc' = "returned" /\ fired_at' # "reraise") =>
               \A i \in 1..Len(replies') : replies'[i] = "ok"
      ]_vars

\* C24 witness: an answer that is no JSON ended the debate with JSONDecodeError
\* in its second round
C24_Witness ==
    /\ pc = "raised"
    /\ exc = "JSONDecodeError"
    /\ replies # <<>>
    /\ LastReply(replies) = "text"
    /\ round_num = 1

-----------------------------------------------------------------------------
(* the fallback structure and the defaults of extract_info (ExtractSpec) *)

\* extract_info has returned the fallback structure
FellBack == ex_pc = "returned" /\ ex_path # "gateway"

\* the dilemma mentions one of the two substrings of line 67
MentionsFixed ==
    "State Department" \in dilemma.mentions \/ "Indo-Pacific" \in dilemma.mentions

\* C25 (as claimed): the fallback structure of extract_info is one fixed
\* structure whatever the inputs: 4 stakeholders, 2 issues and 3 process
\* steps, within the stakeholder-count bounds and with a non-empty process.
C25_FixedFallbackStructure ==
    FellBack =>
        /\ Len(extracted.stakeholders) = 4
        /\ Len(extracted.issues) = 2
        /\ Len(extracted.process) = 3

\* C25 (amended): the fallback structure is computed from the inputs.  For a
\* dilemma that mentions "State Department" or "Indo-Pacific" it is the
\* hardcoded structure of 7 stakeholders, 4 issues and 5 steps.  Otherwise it
\* has one stakeholder per numbered line of process_hint (at most
\* MAX_STAKEHOLDERS, possibly fewer than MIN_STAKEHOLDERS or none), named as
\* the lines; the first five numbered lines of the dilemma as issues, or three
\* "Unknown issue" placeholders; and the names of the numbered lines of
\* process_hint as steps, or three "Unknown step" placeholders.  The process is
\* never empty and the issues are 1 to 5.
C25_FallbackFromInputs ==
    FellBack =>
        /\ MentionsFixed =>
             /\ Len(extracted.stakeholders) = 7
             /\ extracted.stakeholders[1].name = "Elizabeth Carter"
             /\ Len(extracted.issues) = 4
             /\ Len(extracted.process) = 5
             /\ extracted.process[1] = "Situation Assessment"
        /\ ~MentionsFixed =>
             /\ Len(extracted.stakeholders) = Min(Len(process_hint), MAX_STAKEHOLDERS)
             /\ \A i \in 1..Len(extracted.stakeholders) :
                  extracted.stakeholders[i].name = process_hint[i].name
             /\ IF dilemma.challenges = <<>>
                THEN extracted.issues =
                       <<"Unknown issue 1", "Unknown issue 2", "Unknown issue 3">>
                ELSE /\ Len(extracted.issues) = Min(Len(dilemma.challenges), 5)
                     /\ \A i \in 1..Len(extracted.issues) :
                          extracted.issues[i] = dilemma.challenges[i]
             /\ IF process_hint = <<>>
                THEN extracted.process =
                       <<"Unknown step 1", "Unknown step 2", "Unknown step 3">>
                ELSE /\ Len(extracted.process) = Len(process_hint)
                     /\ \A i \in 1..Len(process_hint) :
                          extracted.process[i] = process_hint[i].name
        /\ Len(extracted.stakeholders) <= MAX_STAKEHOLDERS
        /\ Len(extracted.issues) \in 1..5
        /\ extracted.process # <<>>

\* C25 witness: the Gateway call failed for a hint of one numbered line and a
\* dilemma of six: the fallback has one stakeholder, five issues and one step
C25_Witness ==
    /\ ex_pc = "returned"
    /\ ex_path = "except"
    /\ Len(process_hint) = 1
    /\ Len(dilemma.challenges) = 6
    /\ Len(extracted.stakeholders) = 1
    /\ Len(extracted.issues) = 5
    /\ Len(extracted.process) = 1

\* extract_info has returned the Gateway's object, validated
Accepted == ex_pc = "returned" /\ ex_path = "gateway"

\* C26 (as claimed): an accepted Gateway result without issues key is returned
\* with the issues "Issue 1", "Issue 2", one without process key with three
\* generic steps, and the returned issues are always 2 to 5.
C26_GenericDefaults ==
    /\ Accepted =>
        /\ "issues" \notin ex_reply.obj.keys =>
              extracted.issues = <<"Issue 1", "Issue 2">>
        /\ "process" \notin ex_reply.obj.keys => Len(extracted.process) = 3
    /\ ex_pc = "returned" => Len(extracted.issues) \in 2..5

\* C26 (amended): an accepted Gateway result without issues key is returned
\* with the single issue "Unknown issue", one without process key with the
\* single step "Unknown step"; issues and process that are present are
\* returned as the Gateway gave them, whatever their length.
C26_UnknownDefaults ==
    Accepted =>
        /\ IF "issues" \in ex_reply.obj.keys
           THEN extracted.issues = ex_reply.obj.issues
           ELSE extracted.issues = <<"Unknown issue">>
        /\ IF "process" \in ex_reply.obj.keys
           THEN extracted.process = ex_reply.obj.process
           ELSE extracted.process = <<"Unknown step">>

\* C26 witness: a Gateway object with three stakeholders and neither issues nor
\* process was accepted
C26_Witness ==
    /\ Accepted
    /\ ex_reply.kind = "json"
    /\ "issues" \notin ex_reply.obj.keys
    /\ "process" \notin ex_reply.obj.keys
    /\ Len(extracted.issues) = 1
    /\ Len(extracted.process) = 1

-----------------------------------------------------------------------------
(* the defaults of a persona whose profile request failed (PersonaSpec) *)

\* the parts of a text
Parts(text) == {text[i] : i \in 1..Len(text)}

\* C27 (as claimed): the persona of a stakeholder whose profile request failed
\* has the stakeholder's extracted bio, or the generic bio when it has none,
\* and a templated expected_behavior that references its name, its first goal
\* and its tone.
C27_BehaviorNamesFirstGoal ==
    \A i \in 1..Len(personas) :
        (i <= Len(gp_log) /\ gp_log[i] = "error") =>
            /\ personas[i].bio =
                 (IF gp_stakeholders[i].bio # Missing
                  THEN <<gp_stakeholders[i].bio>>
                  ELSE GenericBio(personas[i].name))
            /\ {personas[i].name, personas[i].goals[1], personas[i].tone}
                 \subseteq Parts(personas[i].expected_behavior)

\* C27 (amended): the persona of a stakeholder whose profile request failed has
\* the extracted bio of the stakeholder entry its name maps to (the last one
\* of that name), or the generic bio built from the name when that entry has
\* none, and the templated sentence of line 105 as expected_behavior, which
\* references the name and the tone but none of the persona's goals.
C27_BehaviorNamesToneOnly ==
    \A i \in 1..Len(personas) :
        (i <= Len(gp_log) /\ gp_log[i] = "error") =>
            LET p == personas[i]
                entry == stakeholder_dict(gp_stakeholders, p.name)
            IN  /\ p.name = gp_stakeholders[i].name
                /\ p.bio = (IF entry.bio # Missing THEN <<entry.bio>>
                            ELSE <<p.name, "has a long career in their field">>)
                /\ Len(p.expected_behavior) = 4
                /\ p.expected_behavior[2] = p.name
                /\ p.expected_behavior[4] = p.tone
                /\ p.expected_behavior[3] = "will focus on their primary goals"
                /\ \A g \in 1..Len(p.goals) : p.goals[g] \notin Parts(p.expected_behavior)

\* C27 witness: two requests failed, for a stakeholder with an extracted bio
\* and for one without
C27_Witness ==
    /\ gp_pc = "returned"
    /\ Len(personas) >= 2
    /\ gp_log[1] = "error"
    /\ gp_log[2] = "error"
    /\ personas[1].bio = <<"Extracted bio">>
    /\ personas[2].bio = GenericBio(personas[2].name)
    /\ personas[1].name # personas[2].name

-----------------------------------------------------------------------------
(* the alarm at the exits of simulate_debate (DebateSpec) *)

\* C28: on every exit of simulate_debate after the alarm was armed, by return
\* or by an exception raised at any point (the construction of the client, the
\* padding of an empty process list, the role mapping), the alarm is disarmed.
C28_AlarmDisarmedOnExit == pc \in {"returned", "raised"} => alarm = "off"

-----------------------------------------------------------------------------
(* what an interrupted debate returns (DebateSpec) *)

\* the deadline fired inside the try statement and simulate_debate returned
ReturnedInterrupted == pc = "returned" /\ fired_at \in InTry

\* the returned transcript carries the note of lines 166-172 at its end
HasNote ==
    /\ result # <<>>
    /\ result[Len(result)] = SystemEntry(round_num, current_step)

\* the returned transcript without that note
Statements == IF HasNote THEN SubSeq(result, 1, Len(result) - 1) ELSE result

\* the number of calls answered with an accepted entry
Answered == Cardinality({i \in 1..Len(replies) : replies[i] = "ok"})

\* C29: rounds are atomic under interruption.  A transcript returned after the
\* deadline fired holds the statements of the rounds that were completed
\* entirely and none of the round in progress: its statements are a whole
\* number of rounds, one statement per persona in the order of the personas,
\* the answers obtained in the round in progress are left out, and the System
\* entry is there only when at least one round was completed.
C29_RoundsAtomicOnInterruption ==
    ReturnedInterrupted =>
        LET P == Len(filtered_personas)
        IN  /\ Len(Statements) = CompletedRounds * P
            /\ \A i \in 1..Len(Statements) :
                 LET r == ((i - 1) \div P) + 1
                     name == filtered_personas[((i - 1) % P) + 1].name
                 IN  Statements[i] \in {EchoEntry(name, r, process_steps[r]), OtherEntry}
            /\ Answered - Len(Statements) =
                 (IF fired_at \in {"persona", "call", "reraise", "round_end"}
                  THEN Len(round_transcript) ELSE 0)
            /\ Answered - Len(Statements) <= P
            /\ HasNote => CompletedRounds >= 1
            /\ HasNote <=> Statements # <<>>

\* C29 witness: the deadline fired between two calls of the second round; the
\* answer already obtained in that round is not among the returned statements
C29_Witness ==
    /\ ReturnedInterrupted
    /\ fired_at = "persona"
    /\ round_num = 1
    /\ Len(round_transcript) = 1
    /\ Len(filtered_personas) = 2
    /\ HasNote
    /\ Len(Statements) = 2

-----------------------------------------------------------------------------
(* the names of an accepted Gateway structure (ExtractSpec) *)

\* the stakeholders of the Gateway's object as it was received
Received == IF "stakeholders" \in ex_reply.obj.keys THEN ex_reply.obj.stakeholders ELSE <<>>

\* the names a stakeholder of the process_hint can have
HintNames == {process_hint[i].name : i \in 1..Len(process_hint)}

\* C30: every structure returned on the Gateway path has only stakeholders
\* named "Unknown" or by a name that occurs in process_hint: one received
\* stakeholder with another name discards the whole Gateway result, and the
\* fallback structure is returned instead.
C30_NamesFromHintOrDiscarded ==
    ex_pc = "returned" =>
        /\ ex_path = "gateway" =>
             /\ Len(extracted.stakeholders) = Len(Received)
             /\ \A i \in 1..Len(extracted.stakeholders) :
                  /\ extracted.stakeholders[i].name \in HintNames \cup {"Unknown"}
                  /\ extracted.stakeholders[i].name = "Unknown" <=> Received[i].name = Missing
        /\ (/\ ex_reply.kind = "json"
            /\ \E i \in 1..Len(Received) : Received[i].name \notin HintNames \cup {Missing}) =>
             /\ ex_path \in {"count", "name"}
             /\ IF MentionsFixed
                THEN extracted.stakeholders = FixedStakeholders
                ELSE /\ Len(extracted.stakeholders) =
                          Min(Len(process_hint), MAX_STAKEHOLDERS)
                     /\ \A i \in 1..Len(extracted.stakeholders) :
                          extracted.stakeholders[i].name = process_hint[i].name

\* C30 witness: a Gateway object of three stakeholders, two named as the hint
\* and one not, was discarded and the fallback returned
C30_Witness ==
    /\ ex_pc = "returned"
    /\ ex_path = "name"
    /\ Len(Received) = 3
    /\ Received[1].name \in HintNames
    /\ Received[2].name \in HintNames
    /\ Received[3].name \notin HintNames \cup {Missing}
    /\ ~MentionsFixed
    /\ process_hint # <<>>
    /\ Len(extracted.stakeholders) = Len(process_hint)

====
